---- MODULE Spec2Model ----
(***************************************************************************)
(* NatalBot (src/main.py): a Telegram bot that collects a birth date and a *)
(* birth city in a two-step conversation, asks the Gemini backend for a    *)
(* reading and stores the reading in PostgreSQL.                           *)
(*                                                                         *)
(* The bot runs under python-telegram-bot's Application with its default   *)
(* settings (main, lines 176-191): updates are taken from the update queue *)
(* one at a time and a handler runs to its return before the next update   *)
(* is dispatched.  The conversation state of a user lives in the           *)
(* ConversationHandler's table (`conversations`), the captured date in     *)
(* context.user_data (`user_data`).  A handler that returns None leaves    *)
(* the conversation state alone; one that returns ConversationHandler.END  *)
(* removes the user's entry.                                               *)
(*                                                                         *)
(* Sending a reply is assumed to succeed (transport errors belong to the   *)
(* messaging library).  The generation call, opening the connection, the   *)
(* insert/commit and closing the connection may each fail.                 *)
(***************************************************************************)
EXTENDS Integers, Sequences, FiniteSets, TLC

VARIABLES
    env,            \* the three environment values read at lines 18-20
    boot,           \* position of the start-up code (module level, then main)
    genaiConfigured,\* genai.configure / GenerativeModel done (lines 34-35)
    tableStep,      \* outcome of create_table_if_not_exists (line 174)
    inputs,         \* the updates the users of this run may send
    answers,        \* the texts the generation backend may return in this run
    queue,          \* updates sent by users and not yet dispatched
    cur,            \* the update whose handler is running, or NoUpdate
    pc,             \* position inside the running get_birth_city handler
    frame,          \* locals of the running get_birth_city handler
    conversations,  \* ConversationHandler's per-user state (END: no entry)
    user_data,      \* context.user_data['birth_date'] per user (None: no key)
    log,            \* per user, in order: replies sent, generation calls and
                    \* persist calls made since that user's latest conversation entry
    natal_readings, \* per user, the rows committed to table natal_readings
                    \* since that user's latest conversation entry
    openConns,      \* per user, the connections save_reading_to_db opened and
                    \* did not close since that user's latest conversation entry
    unhandled,      \* users whose handler raised an exception that nothing caught
    conv            \* per user, what the current conversation was given: the
                    \* text accepted as date, the text accepted as city, the
                    \* backend's answer (a text or "error") and what the store
                    \* did with the write; None until given

vars == <<env, boot, genaiConfigured, tableStep, inputs, answers, queue, cur,
          pc, frame,
          conversations, user_data, log, natal_readings, openConns,
          unhandled, conv>>

bootVars == <<env, boot, genaiConfigured, tableStep, inputs, answers>>
botVars == <<cur, pc, frame, conversations, user_data, log, natal_readings,
             openConns, unhandled, conv>>

-----------------------------------------------------------------------------
(* Bounds of the model *)

\* updates that may wait in the update queue
MaxQueue == 1
\* once this many "command not understood" replies stand in the users' logs,
\* no further command is sent, except /start outside a conversation
MaxUnknown == 1

Users == {1, 2}
\* message texts a user may type (used as date or as city)
Texts == {"a", "b"}
\* texts the generation backend may return
GenTexts == {"X", "Y"}

-----------------------------------------------------------------------------
(* Program constants *)

GET_BIRTH_DATE == 0
GET_BIRTH_CITY == 1
\* ConversationHandler.END; in `conversations` it stands for "no entry"
END == -1

\* a missing dictionary key / Python's None
None == "None"
NoUpdate == [user |-> 0, kind |-> "none", text |-> ""]

EnvNames == {"TELEGRAM_BOT_TOKEN", "GEMINI_API_KEY", "DATABASE_URL"}
\* os.getenv gives None for an unset variable, and the string otherwise
EnvValues == {None, "", "value"}

\* kinds of update: the commands /start and /cancel, any other command, plain text
Commands == {"start", "cancel", "other"}
Updates ==
    [user : Users, kind : Commands, text : {""}]
    \cup [user : Users, kind : {"text"}, text : Texts]

\* entries of `log`
ReplyEv(kind, text) ==
    [ev |-> "reply", kind |-> kind, uid |-> 0, date |-> None, city |-> None, text |-> text]
GenCallEv(date, city) ==
    [ev |-> "generate", kind |-> "", uid |-> 0, date |-> date, city |-> city, text |-> ""]
PersistEv(uid, date, city, text) ==
    [ev |-> "persist", kind |-> "", uid |-> uid, date |-> date, city |-> city, text |-> text]

Welcome == ReplyEv("welcome", "")
AskCity == ReplyEv("ask_city", "")
Generating == ReplyEv("generating", "")
Apology == ReplyEv("apology", "")
Cancelled == ReplyEv("cancelled", "")
Unknown == ReplyEv("unknown", "")
Generated(t) == ReplyEv("generated", t)

NoConv == [date |-> None, city |-> None, answer |-> None, store |-> None]

NoFrame == [birth_date |-> None, user_birth_city |-> None,
            gemini_response_text |-> "", conn |-> None]

-----------------------------------------------------------------------------
(* Start-up: module level (lines 18-35) and main (lines 171-191) *)

\* `if not X` is true of None and of the empty string
Falsy(v) == v = None \/ v = ""

\* a variant that forgets the check of lines 29-31
ConfigMissingNoDatabaseUrl ==
    \/ Falsy(env["TELEGRAM_BOT_TOKEN"])
    \/ Falsy(env["GEMINI_API_KEY"])

ConfigMissing ==
    \/ Falsy(env["TELEGRAM_BOT_TOKEN"])
    \/ Falsy(env["GEMINI_API_KEY"])
    \/ Falsy(env["DATABASE_URL"])

\* lines 23-31: exit(1) when a value is missing, else on to line 34
ConfigCheck ==
    /\ boot = "env_check"
    /\ boot' = IF ConfigMissing THEN "exited" ELSE "genai_init"
    /\ UNCHANGED <<env, genaiConfigured, tableStep, inputs, answers, queue, botVars>>

\* lines 34-35
ConfigureGenai ==
    /\ boot = "genai_init"
    /\ genaiConfigured' = TRUE
    /\ boot' = "main"
    /\ UNCHANGED <<env, tableStep, inputs, answers, queue, botVars>>

\* create_table_if_not_exists (line 174): the connection may fail to open
\* (nothing is done), the statement or commit may fail (logged); in both cases
\* and on success main goes on to build the application and poll.  A failing
\* conn.close() in the finally block is caught by nothing and ends main.
CreateTable ==
    /\ boot = "main"
    /\ \E outcome \in {"no_connection", "failed", "created", "close_failed"} :
           /\ tableStep' = outcome
           /\ boot' = IF outcome = "close_failed" THEN "crashed" ELSE "polling"
    /\ UNCHANGED <<env, genaiConfigured, inputs, answers, queue, botVars>>

-----------------------------------------------------------------------------
(* Users *)

\* a user sends an update; it waits in the update queue
UnknownReplies ==
    Cardinality(UNION {{<<u, i>> : i \in {j \in 1..Len(log[u]) : log[u][j] = Unknown}} :
                          u \in Users})

Send(upd) ==
    /\ upd \in inputs
    /\ Len(queue) < MaxQueue
    /\ \/ upd.kind = "text"
       \/ upd.kind = "start" /\ conversations[upd.user] = END
       \/ UnknownReplies < MaxUnknown
    /\ queue' = Append(queue, upd)
    /\ UNCHANGED <<bootVars, botVars>>

-----------------------------------------------------------------------------
(* Dispatch: Application.process_update over the two handlers added at     *)
(* lines 187-188, and ConversationHandler's choice of a handler            *)

IsCommand(upd) == upd.kind \in Commands
IsText(upd) == upd.kind = "text"

\* a variant in which every command is an entry point of the conversation
RouteAnyCommandEnters(upd, state) ==
    IF state = END
    THEN IF IsCommand(upd) THEN "start"
         ELSE "none"
    ELSE IF IsText(upd) /\ state = GET_BIRTH_DATE THEN "get_birth_date"
         ELSE IF IsText(upd) /\ state = GET_BIRTH_CITY THEN "get_birth_city"
         ELSE IF upd.kind = "cancel" THEN "cancel"
         ELSE "unknown"

\* The handler an update is given to, for a user whose conversation state is
\* `state`.  Without an entry only the entry point (/start) is looked at by the
\* conversation handler; another command then falls to the application-level
\* MessageHandler(filters.COMMAND, unknown), plain text to nothing.  With an
\* entry the state's handler is tried, then the fallbacks in order.
Route(upd, state) ==
    IF state = END
    THEN IF upd.kind = "start" THEN "start"
         ELSE IF IsCommand(upd) THEN "unknown"
         ELSE "none"
    ELSE IF IsText(upd) /\ state = GET_BIRTH_DATE THEN "get_birth_date"
         ELSE IF IsText(upd) /\ state = GET_BIRTH_CITY THEN "get_birth_city"
         ELSE IF upd.kind = "cancel" THEN "cancel"
         ELSE "unknown"

\* an update is taken from the queue only while no handler is running
\* a variant in which an update is dispatched while a handler is still running
DispatchingConcurrently(name) ==
    /\ boot = "polling"
    /\ queue # <<>>
    /\ Route(Head(queue), conversations[Head(queue).user]) = name

Dispatching(name) ==
    /\ boot = "polling"
    /\ pc = "idle"
    /\ queue # <<>>
    /\ Route(Head(queue), conversations[Head(queue).user]) = name

Say(u, reply) == [log EXCEPT ![u] = Append(@, reply)]

\* the conversation handler stores the state a handler returns: END removes
\* the entry, None leaves it as it is
SetState(u, state) == [conversations EXCEPT ![u] = state]

-----------------------------------------------------------------------------
(* Handlers *)

\* variants in which a handler leaves the conversation open
CityResultStays == GET_BIRTH_CITY
CancelResultStays == GET_BIRTH_DATE

\* what the handlers return (lines 102, 112, 154, 164)
StartResult == GET_BIRTH_DATE
DateResult == GET_BIRTH_CITY
CityResult == END
CancelResult == END

\* start (lines 95-102), run as the conversation's entry point
Start ==
    /\ Dispatching("start")
    /\ LET u == Head(queue).user IN
         /\ log' = [log EXCEPT ![u] = <<Welcome>>]
         /\ conversations' = SetState(u, StartResult)
         /\ conv' = [conv EXCEPT ![u] = NoConv]
         /\ natal_readings' = [natal_readings EXCEPT ![u] = <<>>]
         /\ openConns' = [openConns EXCEPT ![u] = 0]
    /\ queue' = Tail(queue)
    /\ UNCHANGED <<bootVars, cur, pc, frame, user_data, unhandled>>

\* variants: the date is not stored; the date is stored in one place shared
\* by all users
StoreBirthDateDropped(u, text) == user_data
StoreBirthDateShared(u, text) == [v \in Users |-> text]

\* line 108
\* a variant that keeps a date already stored (setdefault instead of assignment)
StoreBirthDateOnce(u, text) ==
    IF user_data[u] = None THEN [user_data EXCEPT ![u] = text] ELSE user_data

StoreBirthDate(u, text) == [user_data EXCEPT ![u] = text]

\* get_birth_date (lines 105-112)
GetBirthDate ==
    /\ Dispatching("get_birth_date")
    /\ LET u == Head(queue).user
           text == Head(queue).text IN
         /\ user_data' = StoreBirthDate(u, text)
         /\ conv' = [conv EXCEPT ![u].date = text]
         /\ log' = Say(u, AskCity)
         /\ conversations' = SetState(u, DateResult)
    /\ queue' = Tail(queue)
    /\ UNCHANGED <<bootVars, cur, pc, frame, natal_readings, openConns,
                   unhandled>>

\* cancel (lines 157-164)
Cancel ==
    /\ Dispatching("cancel")
    /\ LET u == Head(queue).user IN
         /\ log' = Say(u, Cancelled)
         /\ conversations' = SetState(u, CancelResult)
    /\ queue' = Tail(queue)
    /\ UNCHANGED <<bootVars, cur, pc, frame, user_data, natal_readings,
                   openConns, unhandled, conv>>

\* a variant of unknown that returns ConversationHandler.END
UnknownCommandEndsConversation ==
    /\ Dispatching("unknown")
    /\ log' = Say(Head(queue).user, Unknown)
    /\ conversations' = SetState(Head(queue).user, END)
    /\ queue' = Tail(queue)
    /\ UNCHANGED <<bootVars, cur, pc, frame, user_data,
                   natal_readings, openConns, unhandled, conv>>

\* unknown (lines 167-168): returns None
UnknownCommand ==
    /\ Dispatching("unknown")
    /\ log' = Say(Head(queue).user, Unknown)
    /\ queue' = Tail(queue)
    /\ UNCHANGED <<bootVars, cur, pc, frame, conversations, user_data,
                   natal_readings, openConns, unhandled, conv>>

\* no handler takes the update
Ignore ==
    /\ Dispatching("none")
    /\ queue' = Tail(queue)
    /\ UNCHANGED <<bootVars, botVars>>

-----------------------------------------------------------------------------
(* get_birth_city (lines 115-154) and save_reading_to_db (lines 74-90).    *)
(* The handler is followed through its external calls: the generation     *)
(* call, opening the connection, the insert and commit, the close.  No     *)
(* other update is dispatched meanwhile; users may go on sending.          *)

\* line 120
ReadBirthDate(u) == user_data[u]

\* lines 124-129: the prompt embeds the date read from user_data and the city
Prompt(f) == GenCallEv(f.birth_date, f.user_birth_city)

\* a variant that passes the city and the date in each other's place
PersistArgsSwapped(u, f) ==
    [user_id |-> u, birth_date |-> f.user_birth_city,
     birth_city |-> f.birth_date, gemini_response |-> f.gemini_response_text]

\* line 146: the arguments of save_reading_to_db
PersistArgs(u, f) ==
    [user_id |-> u, birth_date |-> f.birth_date,
     birth_city |-> f.user_birth_city, gemini_response |-> f.gemini_response_text]

PersistCall(a) == PersistEv(a.user_id, a.birth_date, a.birth_city, a.gemini_response)

\* lines 80-84: the committed row
Row(a) ==
    [user_id |-> a.user_id, birth_date |-> a.birth_date, birth_city |-> a.birth_city,
     gemini_response |-> a.gemini_response]

\* line 154: the handler returns ConversationHandler.END
Finish(u) ==
    /\ conversations' = SetState(u, CityResult)
    /\ pc' = "idle"
    /\ cur' = NoUpdate
    /\ frame' = NoFrame

\* lines 117-133: read the city and the date, send the notice, call the backend.
\* A missing 'birth_date' key raises KeyError at line 120, before any reply;
\* nothing catches it and the conversation state is not changed.
GetBirthCity ==
    /\ Dispatching("get_birth_city")
    /\ LET upd == Head(queue)
           u == upd.user IN
         IF ReadBirthDate(u) = None
         THEN /\ unhandled' = unhandled \cup {u}
              /\ UNCHANGED <<cur, pc, frame, log, conv>>
         ELSE LET f == [NoFrame EXCEPT !.birth_date = ReadBirthDate(u),
                                       !.user_birth_city = upd.text] IN
              /\ frame' = f
              /\ log' = [log EXCEPT ![u] = @ \o <<Generating, Prompt(f)>>]
              /\ conv' = [conv EXCEPT ![u].city = upd.text]
              /\ cur' = upd
              /\ pc' = "gen"
              /\ UNCHANGED unhandled
    /\ queue' = Tail(queue)
    /\ UNCHANGED <<bootVars, conversations, user_data, natal_readings,
                   openConns>>

\* lines 142-146 on success: reply with the text, then call save_reading_to_db
OnGenerated(u, f) == <<Generated(f.gemini_response_text), PersistCall(PersistArgs(u, f))>>

\* a variant that calls save_reading_to_db after the try statement, whatever
\* the outcome
OnGenerationErrorStillSaves ==
    <<Apology, PersistCall(PersistArgs(cur.user, frame))>>

\* a variant that repeats the generation call once before apologising
OnGenerationErrorRetries == <<Prompt(frame), Apology>>

\* lines 148-152 on failure
OnGenerationError == <<Apology>>

\* the generation call returns a text (lines 142-146) or raises (lines 148-152)
GenReturn ==
    /\ pc = "gen"
    /\ LET u == cur.user IN
       \E r \in answers \cup {"error"} :
         /\ conv' = [conv EXCEPT ![u].answer = r]
         /\ IF r = "error"
           THEN /\ log' = [log EXCEPT ![u] = @ \o OnGenerationError]
                /\ Finish(u)
           ELSE LET f == [frame EXCEPT !.gemini_response_text = r] IN
                /\ frame' = f
                /\ log' = [log EXCEPT ![u] = @ \o OnGenerated(u, f)]
                /\ pc' = "connect"
                /\ UNCHANGED <<cur, conversations>>
    /\ UNCHANGED <<bootVars, queue, user_data, natal_readings,
                   openConns, unhandled>>

\* get_db_connection (lines 39-48) called at line 76: a connection, or None
\* and then save_reading_to_db does nothing more (line 77)
Connect ==
    /\ pc = "connect"
    /\ \E ok \in BOOLEAN :
         /\ IF ok
              THEN /\ frame' = [frame EXCEPT !.conn = "open"]
                   /\ openConns' = [openConns EXCEPT ![cur.user] = @ + 1]
                   /\ pc' = "insert"
                   /\ UNCHANGED <<cur, conversations>>
              ELSE /\ Finish(cur.user)
                   /\ UNCHANGED openConns
         /\ conv' = [conv EXCEPT ![cur.user].store =
                        IF ok THEN "connected" ELSE "no_connection"]
    /\ UNCHANGED <<bootVars, queue, user_data, log, natal_readings,
                   unhandled>>

\* lines 78-87: insert and commit; an exception is logged and swallowed
Insert ==
    /\ pc = "insert"
    /\ \E ok \in BOOLEAN :
         /\ natal_readings' =
              IF ok THEN [natal_readings EXCEPT
                             ![cur.user] = Append(@, Row(PersistArgs(cur.user, frame)))]
                    ELSE natal_readings
         /\ conv' = [conv EXCEPT ![cur.user].store =
                        IF ok THEN "committed" ELSE "insert_failed"]
    /\ pc' = "close"
    /\ UNCHANGED <<bootVars, queue, cur, frame, conversations, user_data,
                   log, openConns, unhandled>>

\* what a failing conn.close() (line 90) leads to: the exception leaves
\* save_reading_to_db, whose except clause is already over, and reaches the
\* except clause of get_birth_city (lines 148-152)
OnCloseError == <<Apology>>

\* a variant of save_reading_to_db without the finally block: the connection
\* is left open when the function returns
CloseForgotten ==
    /\ pc = "close"
    /\ \E ok \in BOOLEAN :
         IF ok
         THEN UNCHANGED <<openConns, log>>
         ELSE /\ log' = [log EXCEPT ![cur.user] = @ \o OnCloseError]
              /\ UNCHANGED openConns
    /\ Finish(cur.user)
    /\ UNCHANGED <<bootVars, queue, user_data, natal_readings,
                   unhandled, conv>>

\* lines 88-90: the finally block closes the connection
Close ==
    /\ pc = "close"
    /\ \E ok \in BOOLEAN :
         IF ok
         THEN /\ openConns' = [openConns EXCEPT ![cur.user] = @ - 1]
              /\ UNCHANGED log
         ELSE /\ log' = [log EXCEPT ![cur.user] = @ \o OnCloseError]
              /\ UNCHANGED openConns
    /\ Finish(cur.user)
    /\ UNCHANGED <<bootVars, queue, user_data, natal_readings,
                   unhandled, conv>>

-----------------------------------------------------------------------------
(* The system *)

\* one user typing any of the texts and a backend returning any of its
\* texts, or two users each typing a text of their own and a backend with
\* one text
Scenarios ==
    { [inputs |-> {upd \in Updates : upd.user = 1}, answers |-> GenTexts],
      [inputs |-> {upd \in Updates : upd.kind = "text" =>
                                       \/ upd.user = 1 /\ upd.text = "a"
                                       \/ upd.user = 2 /\ upd.text = "b"},
       answers |-> {"X"}] }

Init ==
    /\ env \in [EnvNames -> EnvValues]
    /\ \E sc \in Scenarios : inputs = sc.inputs /\ answers = sc.answers
    /\ boot = "env_check"
    /\ genaiConfigured = FALSE
    /\ tableStep = "not_run"
    /\ queue = <<>>
    /\ cur = NoUpdate
    /\ pc = "idle"
    /\ frame = NoFrame
    /\ conversations = [u \in Users |-> END]
    /\ user_data = [u \in Users |-> None]
    /\ log = [u \in Users |-> <<>>]
    /\ natal_readings = [u \in Users |-> <<>>]
    /\ openConns = [u \in Users |-> 0]
    /\ unhandled = {}
    /\ conv = [u \in Users |-> NoConv]

Next ==
    \/ ConfigCheck
    \/ ConfigureGenai
    \/ CreateTable
    \/ \E upd \in Updates : Send(upd)
    \/ Start
    \/ GetBirthDate
    \/ GetBirthCity
    \/ GenReturn
    \/ Connect
    \/ Insert
    \/ Close
    \/ Cancel
    \/ UnknownCommand
    \/ Ignore

Spec == Init /\ [][Next]_vars

-----------------------------------------------------------------------------
(* Properties *)

Replies(u) == SelectSeq(log[u], LAMBDA e : e.ev = "reply")
GenCalls(u) == SelectSeq(log[u], LAMBDA e : e.ev = "generate")
PersistCalls(u) == SelectSeq(log[u], LAMBDA e : e.ev = "persist")
Count(seq, e) == Len(SelectSeq(seq, LAMBDA x : x = e))
InConversation(u) == conversations[u] \in {GET_BIRTH_DATE, GET_BIRTH_CITY}

\* this step dispatches an update of the given kind sent by user u
Handles(u, kind) ==
    /\ boot = "polling"
    /\ pc = "idle"
    /\ queue # <<>>
    /\ Head(queue).user = u
    /\ Head(queue).kind = kind
    /\ queue' = Tail(queue)

\* the handler of user u's city text is between its start and its return
InFlight(u) == pc # "idle" /\ cur.user = u

\* C1 as stated: for every user, birth_date is set if and only if the
\* user's conversation state is AWAITING_CITY.
C1_BirthDateIffAwaitingCity ==
    \A u \in Users : (user_data[u] # None) <=> (conversations[u] = GET_BIRTH_CITY)

\* C1 amended: birth_date is set in every AWAITING_CITY state and is absent
\* until the user's first date text is accepted; once set it is never removed
\* (it stays after completion and cancellation and through AWAITING_DATE of a
\* later conversation), and it is written only by the AWAITING_DATE step.
C1_BirthDateSetInCityAndKept ==
    /\ [](\A u \in Users : conversations[u] = GET_BIRTH_CITY => user_data[u] # None)
    /\ [][\A u \in Users :
            /\ user_data[u] # None => user_data'[u] # None
            /\ user_data'[u] # user_data[u] =>
                 /\ Handles(u, "text")
                 /\ conversations[u] = GET_BIRTH_DATE
                 /\ conversations'[u] = GET_BIRTH_CITY
                 /\ user_data'[u] = Head(queue).text]_vars

\* C1 witness: a later conversation of a user waits for its date while the
\* date of the earlier conversation is still in user_data.
C1_StaleDateInLaterConversation ==
    \E u \in Users :
        /\ conversations[u] = GET_BIRTH_DATE
        /\ user_data[u] # None
        /\ conv[u].date = None

\* C2 as stated: whenever a user whose session is in AWAITING_DATE or
\* AWAITING_CITY sends the start command, the session is replaced by a fresh
\* one in AWAITING_DATE with no birth_date and the welcome reply is sent.
C2_StartResetsInFlightSession ==
    [][\A u \in Users :
         (Handles(u, "start") /\ InConversation(u)) =>
            /\ conversations'[u] = GET_BIRTH_DATE
            /\ user_data'[u] = None
            /\ Replies(u)' # <<>>
            /\ Replies(u)'[Len(Replies(u)')] = Welcome]_vars

Succeeded(u) == conv[u].answer \notin {None, "error"}

\* C3: when the generation call of a conversation has returned a text,
\* exactly one persist call has been made in that conversation, with the
\* user's id, the date and the city accepted in that conversation and the
\* returned text; no persist call is made otherwise.
C3_OnePersistWithCollectedValues ==
    \A u \in Users :
        /\ Succeeded(u) =>
             /\ conv[u].date # None
             /\ conv[u].city # None
             /\ PersistCalls(u) =
                  <<PersistEv(u, conv[u].date, conv[u].city, conv[u].answer)>>
        /\ ~Succeeded(u) => PersistCalls(u) = <<>>

\* C3 witness: the handler has returned after a persist call made in a
\* conversation given date "b", city "a" and answer "Y".
C3_PersistCalled ==
    \E u \in Users :
        /\ conv[u].date = "b"
        /\ conv[u].city = "a"
        /\ conv[u].answer = "Y"
        /\ Len(PersistCalls(u)) = 1
        /\ pc = "idle"

\* C4: in a conversation whose generation call failed, save_reading_to_db is
\* not called, no connection is opened and no row written, exactly one
\* apology and no generated text is sent, the handler has returned END and no
\* exception escaped it.
C4_FailureIsNotPersisted ==
    \A u \in Users :
        conv[u].answer = "error" =>
            /\ PersistCalls(u) = <<>>
            /\ natal_readings[u] = <<>>
            /\ openConns[u] = 0
            /\ Count(log[u], Apology) = 1
            /\ \A i \in 1..Len(log[u]) : log[u][i].kind # "generated"
            /\ ~InFlight(u)
            /\ conversations[u] = END
            /\ u \notin unhandled

\* C4 witness: a generation call has failed.
C4_GenerationFailed ==
    \E u \in Users : conv[u].answer = "error" /\ conv[u].city = "b"

\* C5 as stated: a cancel handled in AWAITING_DATE or AWAITING_CITY sends one
\* acknowledgment, ends the conversation and destroys the captured
\* birth_date; a text handled without a conversation changes nothing.
C5_CancelDestroysSession ==
    [][\A u \in Users :
         /\ (Handles(u, "cancel") /\ InConversation(u)) =>
               /\ log'[u] = Append(log[u], Cancelled)
               /\ conversations'[u] = END
               /\ user_data'[u] = None
         /\ (Handles(u, "text") /\ conversations[u] = END) =>
               UNCHANGED botVars]_vars

\* C5 amended: a cancel handled in AWAITING_DATE or AWAITING_CITY sends one
\* acknowledgment and removes the conversation state, and leaves the
\* captured birth_date in user_data; a text handled without a conversation
\* gets no reply and changes nothing (no generation call, no store write).
C5_CancelEndsConversationKeepsDate ==
    [][\A u \in Users :
         /\ (Handles(u, "cancel") /\ InConversation(u)) =>
               /\ log'[u] = Append(log[u], Cancelled)
               /\ conversations'[u] = END
               /\ user_data'[u] = user_data[u]
               /\ UNCHANGED <<natal_readings, openConns, pc, cur, frame>>
         /\ (Handles(u, "text") /\ conversations[u] = END) =>
               UNCHANGED botVars]_vars

\* C5 witness: a user cancelled after the date was captured and has sent a
\* text that waits to be dispatched.
C5_TextAfterCancel ==
    \E u \in Users :
        /\ conversations[u] = END
        /\ log[u] # <<>>
        /\ log[u][Len(log[u])] = Cancelled
        /\ conv[u].date # None
        /\ user_data[u] = conv[u].date
        /\ queue # <<>>
        /\ Head(queue).user = u
        /\ Head(queue).kind = "text"

\* the handler of user u's city text has returned
Completed(u) == conv[u].answer # None /\ ~InFlight(u)

\* C6 as stated: a conversation that ran start, date text, city text was
\* sent the welcome, the prompt for the city, the notice and then exactly
\* one of the generated text and the apology; the two are never both sent in
\* one conversation; the notice precedes the generation call.
C6_ReplySequence ==
    \A u \in Users :
        /\ ~(\E i, j \in 1..Len(log[u]) :
                log[u][i].kind = "generated" /\ log[u][j] = Apology)
        /\ \A i \in 1..Len(log[u]) :
              log[u][i].ev = "generate" => (i > 1 /\ log[u][i - 1] = Generating)
        /\ (Completed(u) /\ Count(log[u], Unknown) = 0) =>
              \/ Replies(u) = <<Welcome, AskCity, Generating, Generated(conv[u].answer)>>
              \/ Replies(u) = <<Welcome, AskCity, Generating, Apology>>

\* C7 as stated: after a conversation whose generation call succeeded has
\* completed, the store holds exactly one record of that conversation.
C7_ExactlyOneRecord ==
    \A u \in Users :
        (Succeeded(u) /\ Completed(u)) => Len(natal_readings[u]) = 1

\* C7 amended: a conversation never has two records; it has one exactly when
\* its generation call succeeded, the connection opened and the insert and
\* commit succeeded, and that record holds the conversation's values; when
\* the store failed it has none.
C7_AtMostOneRecord ==
    \A u \in Users :
        /\ Len(natal_readings[u]) <= 1
        /\ natal_readings[u] # <<>> <=> (Succeeded(u) /\ conv[u].store = "committed")
        /\ natal_readings[u] # <<>> =>
              natal_readings[u][1] =
                 [user_id |-> u, birth_date |-> conv[u].date,
                  birth_city |-> conv[u].city, gemini_response |-> conv[u].answer]

\* C7 witness: a conversation whose generation succeeded has completed with
\* its record committed.
C7_RecordCommitted ==
    \E u \in Users :
        /\ Completed(u)
        /\ Succeeded(u)
        /\ Len(natal_readings[u]) = 1
        /\ conversations[u] = END

\* C8 as stated: the generated text is sent before the store write is
\* attempted, no apology follows a store write, and after a store failure the
\* conversation has still ended.
C8_StoreFailureNotSurfaced ==
    \A u \in Users :
        /\ \A i \in 1..Len(log[u]) :
              log[u][i].ev = "persist" =>
                 /\ i > 1
                 /\ log[u][i - 1] = Generated(log[u][i].text)
                 /\ \A j \in (i + 1)..Len(log[u]) : log[u][j] # Apology
        /\ (Completed(u) /\ Succeeded(u)) => conversations[u] = END

\* the texts user u may type in this run
OwnTexts(u) == {upd.text : upd \in {i \in inputs : i.user = u /\ i.kind = "text"}}

\* this step runs (a part of) the handler of an update sent by user u
StepOf(u) ==
    \/ InFlight(u)
    \/ boot = "polling" /\ pc = "idle" /\ queue # <<>> /\ Head(queue).user = u

\* C9: a user's conversation state, birth_date, log and records hold only
\* that user's id and texts that user typed, and change only in steps that
\* handle that user's own updates.
C9_UsersAreIsolated ==
    /\ [](\A u \in Users :
            LET own == OwnTexts(u) IN
            /\ user_data[u] \in own \cup {None}
            /\ \A i \in 1..Len(log[u]) :
                  /\ log[u][i].date \in own \cup {None}
                  /\ log[u][i].city \in own \cup {None}
                  /\ log[u][i].uid \in {0, u}
            /\ \A i \in 1..Len(natal_readings[u]) :
                  /\ natal_readings[u][i].user_id = u
                  /\ natal_readings[u][i].birth_date \in own
                  /\ natal_readings[u][i].birth_city \in own)
    /\ [][\A u \in Users :
            <<conversations[u], user_data[u], log[u], natal_readings[u]>>' #
            <<conversations[u], user_data[u], log[u], natal_readings[u]>>
               => StepOf(u)]_vars

\* C9 witness: user 1 is in AWAITING_CITY with its date captured while user
\* 2, whose earlier conversation wrote a record, waits in AWAITING_DATE of
\* its next conversation.
C9_TwoUsersAtDifferentStates ==
    /\ conversations[1] = GET_BIRTH_CITY
    /\ user_data[1] = "a"
    /\ conversations[2] = GET_BIRTH_DATE
    /\ user_data[2] = "b"

\* C10: when one of the three environment values is unset or empty the
\* process exits at the check, with the generation client not configured,
\* the table step not run and no update handled; when all three are set it
\* does not exit there.
C10_FailFastOnMissingConfig ==
    LET missing == \E n \in EnvNames : env[n] = None \/ env[n] = "" IN
    /\ boot # "env_check" => (missing <=> boot = "exited")
    /\ missing =>
          /\ boot \in {"env_check", "exited"}
          /\ ~genaiConfigured
          /\ tableStep = "not_run"
          /\ pc = "idle"
          /\ \A u \in Users :
                log[u] = <<>> /\ conversations[u] = END /\ user_data[u] = None

\* C10 witness: the process has exited because only DATABASE_URL is unset,
\* with an update waiting that is never handled.
C10_ExitedWithoutDatabaseUrl ==
    /\ boot = "exited"
    /\ env["TELEGRAM_BOT_TOKEN"] = "value"
    /\ env["GEMINI_API_KEY"] = "value"
    /\ env["DATABASE_URL"] = None
    /\ queue # <<>>

-----------------------------------------------------------------------------
(* Progress *)

\* The generation call and the store calls are synchronous calls inside the
\* running handler: once started, each returns or raises, and the handler
\* goes on.  Nothing is assumed about users sending or updates being
\* dispatched.
LiveSpec ==
    /\ Init
    /\ [][Next]_vars
    /\ WF_vars(GenReturn)
    /\ WF_vars(Connect)
    /\ WF_vars(Insert)
    /\ WF_vars(Close)

\* C11: once a city text has been accepted (its handler is running), the
\* handler eventually returns and the user's conversation state is removed,
\* whatever the outcomes of the generation call and of the store calls.
C11_NoStuckSession ==
    \A u \in Users : InFlight(u) ~> (~InFlight(u) /\ conversations[u] = END)

\* C11 as stated: the whole session, the captured birth_date included, is
\* gone once the accepted city text has been handled.
C11_SessionDestroyedOnCompletion ==
    \A u \in Users :
        InFlight(u) ~> /\ ~InFlight(u)
                       /\ conversations[u] = END
                       /\ user_data[u] = None

\* C11 witness: a conversation has completed although the connection to the
\* store could not be opened.
C11_CompletedWithoutConnection ==
    \E u \in Users :
        /\ Completed(u)
        /\ conv[u].store = "no_connection"
        /\ conversations[u] = END

-----------------------------------------------------------------------------
(* Generation calls *)

\* C12: within one conversation the generation backend is called at most
\* once, and it has been called exactly when a city text was accepted; a
\* call is made only by the step that handles a text in AWAITING_CITY, that
\* step makes exactly one call, built from the stored date and the text, and
\* no later step (a failed call's return included) adds another.
C12_GenerationCalledOnceNeverRetried ==
    /\ [](\A u \in Users :
            /\ Len(GenCalls(u)) <= 1
            /\ (GenCalls(u) # <<>>) <=> (conv[u].city # None))
    /\ [][\A u \in Users :
            /\ Handles(u, "text") /\ conversations[u] = GET_BIRTH_CITY =>
                 GenCalls(u)' = <<GenCallEv(user_data[u], Head(queue).text)>>
            /\ GenCalls(u)' # GenCalls(u) =>
                 \/ Handles(u, "text") /\ conversations[u] = GET_BIRTH_CITY
                 \/ Handles(u, "start") /\ GenCalls(u)' = <<>>]_vars

\* C12 witness: the generation call of a conversation failed, the user then
\* sent a command, and the conversation's only call is the failed one.
C12_FailedCallNotRepeated ==
    \E u \in Users :
        /\ Completed(u)
        /\ conv[u].answer = "error"
        /\ Len(GenCalls(u)) = 1
        /\ log[u][Len(log[u])] = Unknown

-----------------------------------------------------------------------------
(* Sequential handling *)

\* C13: the messages of one user are handled one after the other.  While a
\* handler is running no update leaves the queue and only the running
\* handler's user has any of their state changed; a text that arrives after a
\* conversation's city text was accepted is handled only after that handler
\* has returned and then changes nothing, so a conversation has at most one
\* generation call and at most one record.
C13_NoInterleavedHandling ==
    /\ [](\A u \in Users :
            conv[u].city # None => Len(GenCalls(u)) = 1 /\ Len(natal_readings[u]) <= 1)
    /\ [][/\ pc # "idle" =>
               /\ queue' = queue \/ \E upd \in Updates : queue' = Append(queue, upd)
               /\ pc' # "idle" => cur' = cur
               /\ \A v \in Users \ {cur.user} :
                      /\ log'[v] = log[v]
                      /\ conversations'[v] = conversations[v]
                      /\ user_data'[v] = user_data[v]
                      /\ natal_readings'[v] = natal_readings[v]
          /\ \A u \in Users :
               Handles(u, "text") /\ conv[u].city # None =>
                   /\ ~InFlight(u)
                   /\ conversations[u] = END
                   /\ UNCHANGED botVars]_vars

\* C13 witness: a second text of a user waits in the queue while the handler
\* of their city text is running.
C13_SecondCityTextWaits ==
    \E u \in Users :
        /\ InFlight(u)
        /\ conversations[u] = GET_BIRTH_CITY
        /\ queue # <<>>
        /\ Head(queue).user = u
        /\ Head(queue).kind = "text"

-----------------------------------------------------------------------------
(* Cancel during generation *)

\* C14: a cancel sent while the handler of an accepted city text is running
\* does not interrupt it.  A conversation whose city text was accepted is
\* never acknowledged as cancelled; when its handler has returned the state
\* is removed, the generated text was replied and save_reading_to_db was
\* called once if the generation succeeded, and the apology was replied if it
\* failed; the cancel is handled afterwards, outside any conversation, and
\* gets the unknown-command reply.
C14_CancelDoesNotInterruptGeneration ==
    /\ [](\A u \in Users :
            /\ conv[u].city # None => Count(log[u], Cancelled) = 0
            /\ Completed(u) =>
                 /\ conversations[u] = END
                 /\ IF Succeeded(u)
                    THEN /\ Count(log[u], Generated(conv[u].answer)) = 1
                         /\ Len(PersistCalls(u)) = 1
                    ELSE /\ Count(log[u], Apology) = 1
                         /\ PersistCalls(u) = <<>>)
    /\ [][\A u \in Users :
            Handles(u, "cancel") /\ conv[u].city # None =>
                /\ log' = [log EXCEPT ![u] = Append(@, Unknown)]
                /\ UNCHANGED <<conversations, user_data, natal_readings, conv, pc>>]_vars

\* C14 witness: the generation call of a user's city text has not returned
\* and that user's cancel is the next update in the queue.
C14_CancelSentDuringGeneration ==
    \E u \in Users :
        /\ InFlight(u)
        /\ pc = "gen"
        /\ queue # <<>>
        /\ Head(queue).user = u
        /\ Head(queue).kind = "cancel"

-----------------------------------------------------------------------------
(* Structural error *)

\* The bot taken in the state the lookup of line 120 does not guard against:
\* user 1's conversation is in GET_BIRTH_CITY and their user_data has no
\* 'birth_date'.  No sequence of updates produces this state (C17); it is
\* the hypothesis of the structural-error requirement, so it is taken as the
\* starting point.
FaultInit ==
    /\ env \in [EnvNames -> EnvValues]
    /\ \E sc \in Scenarios : inputs = sc.inputs /\ answers = sc.answers
    /\ boot = "env_check"
    /\ genaiConfigured = FALSE
    /\ tableStep = "not_run"
    /\ queue = <<>>
    /\ cur = NoUpdate
    /\ pc = "idle"
    /\ frame = NoFrame
    /\ conversations = [u \in Users |-> IF u = 1 THEN GET_BIRTH_CITY ELSE END]
    /\ user_data = [u \in Users |-> None]
    /\ log = [u \in Users |-> <<>>]
    /\ natal_readings = [u \in Users |-> <<>>]
    /\ openConns = [u \in Users |-> 0]
    /\ unhandled = {}
    /\ conv = [u \in Users |-> NoConv]

FaultSpec == FaultInit /\ [][Next]_vars

-----------------------------------------------------------------------------
(* Store connections *)

\* C16: a user never has more than one store connection open, a connection
\* is open only while save_reading_to_db is running (or after its close()
\* raised, in which case the function did not return and the apology was
\* sent), and whenever save_reading_to_db returns, be it because no
\* connection could be opened or after the insert committed or failed, the
\* user has no connection open.
C16_ConnectionReleasedOnReturn ==
    /\ [](\A u \in Users :
            /\ openConns[u] \in {0, 1}
            /\ openConns[u] = 1 =>
                 \/ InFlight(u) /\ pc \in {"insert", "close"}
                 \/ /\ Completed(u)
                    /\ conv[u].store \in {"committed", "insert_failed"}
                    /\ Count(log[u], Apology) = 1)
    /\ [][\A u \in Users :
            (/\ InFlight(u)
             /\ pc \in {"connect", "close"}
             /\ ~InFlight(u)'
             /\ log' = log) => openConns'[u] = 0]_vars

\* C16 witness: save_reading_to_db has returned after a failed insert and the
\* user has no connection open.
C16_ReleasedAfterFailedInsert ==
    \E u \in Users :
        /\ Completed(u)
        /\ conv[u].store = "insert_failed"
        /\ Count(log[u], Apology) = 0
        /\ openConns[u] = 0

-----------------------------------------------------------------------------
(* The date lookup of the city step *)

\* C17: whenever a user's conversation is in AWAITING_CITY, the user's
\* birth_date is present and is the text accepted by the AWAITING_DATE step
\* of this conversation, so the lookup of the city handler never fails: no
\* KeyError has left a handler, and every handled city text starts the
\* generation with that date.
C17_DatePresentInAwaitingCity ==
    /\ [](/\ unhandled = {}
          /\ \A u \in Users :
               conversations[u] = GET_BIRTH_CITY =>
                   /\ conv[u].date # None
                   /\ user_data[u] = conv[u].date)
    /\ [][\A u \in Users :
            Handles(u, "text") /\ conversations[u] = GET_BIRTH_CITY =>
                /\ InFlight(u)'
                /\ frame'.birth_date = conv[u].date]_vars

\* C17 witness: the handler of a city text has passed the lookup and is
\* waiting for the generation call, holding the date given in this
\* conversation.
C17_CityStepReadsThisConversationsDate ==
    \E u \in Users :
        /\ InFlight(u)
        /\ pc = "gen"
        /\ conversations[u] = GET_BIRTH_CITY
        /\ frame.birth_date = conv[u].date
        /\ user_data[u] = conv[u].date

-----------------------------------------------------------------------------
(* Commands that are not expected *)

\* C18: handling a command other than start and cancel in AWAITING_DATE or
\* AWAITING_CITY appends exactly the unknown-command reply to the user's
\* replies and changes nothing else: the conversation state, the stored
\* birth_date, the records and the calls made are the same, no handler is
\* left running, and a text sent next goes to the same step as before.
C18_UnknownCommandLeavesSessionUntouched ==
    [][\A u \in Users :
         Handles(u, "other") /\ InConversation(u) =>
             /\ log' = [log EXCEPT ![u] = Append(@, Unknown)]
             /\ UNCHANGED <<conversations, user_data, natal_readings, openConns,
                            conv, cur, pc, frame, unhandled>>
             /\ \A t \in Texts :
                  LET upd == [user |-> u, kind |-> "text", text |-> t] IN
                  Route(upd, conversations'[u]) = Route(upd, conversations[u])]_vars

\* C18 witness: a user in AWAITING_CITY has just been told that their command
\* was not understood; state and date are still there.
C18_UnknownReplyInAwaitingCity ==
    \E u \in Users :
        /\ conversations[u] = GET_BIRTH_CITY
        /\ log[u] = <<Welcome, AskCity, Unknown>>
        /\ user_data[u] = conv[u].date

-----------------------------------------------------------------------------
(* Updates outside a conversation *)

\* C19: for a user with no conversation, handling a text changes nothing and
\* replies nothing; handling cancel or another command appends only the
\* unknown-command reply; in both cases the user still has no conversation,
\* no date is stored, no call is made and no record is written.  A
\* conversation comes into being only by handling start.
C19_OnlyStartCreatesSession ==
    [][\A u \in Users :
         /\ Handles(u, "text") /\ conversations[u] = END => UNCHANGED botVars
         /\ (/\ Handles(u, "cancel") \/ Handles(u, "other")
             /\ conversations[u] = END) =>
                /\ log' = [log EXCEPT ![u] = Append(@, Unknown)]
                /\ UNCHANGED <<conversations, user_data, natal_readings,
                               openConns, conv, cur, pc, frame, unhandled>>
         /\ conversations[u] = END /\ conversations'[u] # END =>
                /\ Handles(u, "start")
                /\ conversations'[u] = GET_BIRTH_DATE]_vars

\* C19 witness: a user who never started a conversation sent a command and
\* has received the unknown-command reply and nothing else.
C19_UnknownReplyWithoutSession ==
    \E u \in Users :
        /\ conversations[u] = END
        /\ conv[u] = NoConv
        /\ user_data[u] = None
        /\ log[u] = <<Unknown>>
====
